---- MODULE Spec2Model ----
(***************************************************************************)
(* The two bridging headers of Flixor (macOS and tvOS) as directive lists, *)
(* run by a small preprocessor over the state of one translation unit:     *)
(* the macros defined so far, the headers already imported (#import takes  *)
(* a file at most once), and the declarations those headers brought in.    *)
(***************************************************************************)
EXTENDS Integers, Sequences, FiniteSets, TLC

\* How many times one bridging header may be processed in a translation unit.
MaxRepeat == 3
\* How many headers the surrounding translation unit imports by itself.
MaxTUImports == 2

MacFile == "FlixorMac-Bridging-Header.h"
TVFile == "FlixorTV-Bridging-Header.h"
BridgingFiles == {MacFile, TVFile}

MacGuard == "FlixorMac_Bridging_Header_h"
TVGuard_SameAsMac == "FlixorMac_Bridging_Header_h"
TVGuard == "FlixorTV_Bridging_Header_h"

MpvHeaders == <<"mpv/client.h", "mpv/render.h", "mpv/render_gl.h", "mpv/stream_cb.h">>
MetalHeaders == <<"Metal/Metal.h", "MetalKit/MetalKit.h">>

Range(s) == {s[i] : i \in 1..Len(s)}
MpvSet == Range(MpvHeaders)
MetalSet == Range(MetalHeaders)
IsMpv(h) == h \in MpvSet

\* Macros and headers the translation unit brings in before or between the
\* bridging headers (compiler flags, prefix headers, other imports).
TUMacros == {"DEBUG", "TARGET_OS_TV"}
TUHeaders == {"Foundation/Foundation.h", "Metal/Metal.h", "mpv/render.h"}
TUDecls == {"AppDelegate"}

Dir(op, arg) == [op |-> op, arg |-> arg]

\* FlixorMac-Bridging-Header.h, lines 8-17, with a second macro defined.
MacHeader_ExtraDefine ==
    << Dir("ifndef", MacGuard),
       Dir("define", MacGuard),
       Dir("define", "DEBUG"),
       Dir("import", "mpv/client.h"),
       Dir("import", "mpv/render.h"),
       Dir("import", "mpv/render_gl.h"),
       Dir("import", "mpv/stream_cb.h"),
       Dir("endif", "") >>

\* FlixorMac-Bridging-Header.h, lines 8-17.
MacHeader ==
    << Dir("ifndef", MacGuard),
       Dir("define", MacGuard),
       Dir("import", "mpv/client.h"),
       Dir("import", "mpv/render.h"),
       Dir("import", "mpv/render_gl.h"),
       Dir("import", "mpv/stream_cb.h"),
       Dir("endif", "") >>

\* FlixorTV-Bridging-Header.h with render.h and render_gl.h swapped.
TVHeader_SwappedImports ==
    << Dir("ifndef", TVGuard),
       Dir("define", TVGuard),
       Dir("import", "mpv/client.h"),
       Dir("import", "mpv/render_gl.h"),
       Dir("import", "mpv/render.h"),
       Dir("import", "mpv/stream_cb.h"),
       Dir("import", "Metal/Metal.h"),
       Dir("import", "MetalKit/MetalKit.h"),
       Dir("endif", "") >>

\* FlixorTV-Bridging-Header.h without the MetalKit import.
TVHeader_NoMetalKit ==
    << Dir("ifndef", TVGuard),
       Dir("define", TVGuard),
       Dir("import", "mpv/client.h"),
       Dir("import", "mpv/render.h"),
       Dir("import", "mpv/render_gl.h"),
       Dir("import", "mpv/stream_cb.h"),
       Dir("import", "Metal/Metal.h"),
       Dir("endif", "") >>

\* FlixorTV-Bridging-Header.h guarded by a platform macro instead of its own.
TVHeader_PlatformGuard ==
    << Dir("ifndef", "TARGET_OS_TV"),
       Dir("define", TVGuard),
       Dir("import", "mpv/client.h"),
       Dir("import", "mpv/render.h"),
       Dir("import", "mpv/render_gl.h"),
       Dir("import", "mpv/stream_cb.h"),
       Dir("import", "Metal/Metal.h"),
       Dir("import", "MetalKit/MetalKit.h"),
       Dir("endif", "") >>

\* FlixorTV-Bridging-Header.h whose #define of the guard is missing.
TVHeader_NoDefine ==
    << Dir("ifndef", TVGuard),
       Dir("import", "mpv/client.h"),
       Dir("import", "mpv/render.h"),
       Dir("import", "mpv/render_gl.h"),
       Dir("import", "mpv/stream_cb.h"),
       Dir("import", "Metal/Metal.h"),
       Dir("import", "MetalKit/MetalKit.h"),
       Dir("endif", "") >>

\* FlixorTV-Bridging-Header.h, lines 8-21.
TVHeader ==
    << Dir("ifndef", TVGuard),
       Dir("define", TVGuard),
       Dir("import", "mpv/client.h"),
       Dir("import", "mpv/render.h"),
       Dir("import", "mpv/render_gl.h"),
       Dir("import", "mpv/stream_cb.h"),
       Dir("import", "Metal/Metal.h"),
       Dir("import", "MetalKit/MetalKit.h"),
       Dir("endif", "") >>

Guard(f) == IF f = MacFile THEN MacGuard ELSE TVGuard
Header(f) == IF f = MacFile THEN MacHeader ELSE TVHeader

VARIABLES
    defined,     \* macros defined so far: records [name, origin]
    visible,     \* headers imported so far, in the order of their first import
    decls,       \* declarations in scope: records [name, origin]
    tuImported,  \* headers the translation unit imported by itself
    log          \* one record per processing of a bridging header

vars == <<defined, visible, decls, tuImported, log>>

Names(ds) == {d.name : d \in ds}
IsDefined(m, ds) == m \in Names(ds)

\* One directive, applied to the preprocessor state st of the file being read.
\* skip counts the open conditionals whose group is being skipped.
Step(d, st) ==
    CASE d.op = "ifndef" ->
           IF st.skip > 0 THEN [st EXCEPT !.skip = @ + 1]
           ELSE IF IsDefined(d.arg, st.defined) THEN [st EXCEPT !.skip = 1]
           ELSE st
      [] d.op = "endif" ->
           IF st.skip > 0 THEN [st EXCEPT !.skip = @ - 1] ELSE st
      [] d.op = "define" ->
           IF st.skip > 0 \/ IsDefined(d.arg, st.defined) THEN st
           ELSE [st EXCEPT !.defined = @ \cup {[name |-> d.arg, origin |-> st.file]}]
      [] d.op = "import" ->
           IF st.skip > 0 THEN st
           ELSE IF d.arg \in Range(st.visible)
                THEN [st EXCEPT !.issued = Append(@, d.arg)]
                ELSE [st EXCEPT !.issued = Append(@, d.arg),
                                !.visible = Append(@, d.arg),
                                !.decls = @ \cup {[name |-> d.arg, origin |-> d.arg]}]
      [] OTHER -> st

RECURSIVE Exec(_, _)
Exec(dirs, st) ==
    IF dirs = <<>> THEN st ELSE Exec(Tail(dirs), Step(Head(dirs), st))

Count(f) == Cardinality({i \in 1..Len(log) : log[i].file = f})

Init ==
    /\ defined = {}
    /\ visible = <<>>
    /\ decls = {}
    /\ tuImported = {}
    /\ log = <<>>

\* The compiler reads bridging header f from top to bottom.
Process(f) ==
    /\ Count(f) < MaxRepeat
    /\ LET st0 == [defined |-> defined, visible |-> visible, decls |-> decls,
                   issued |-> <<>>, skip |-> 0, file |-> f]
           st == Exec(Header(f), st0)
       IN /\ defined' = st.defined
          /\ visible' = st.visible
          /\ decls' = st.decls
          /\ log' = Append(log, [file |-> f, pre |-> Names(defined),
                                 imports |-> st.issued])
    /\ UNCHANGED tuImported

\* The translation unit defines a macro of its own.
TUDefine(m) ==
    /\ ~IsDefined(m, defined)
    /\ defined' = defined \cup {[name |-> m, origin |-> "tu"]}
    /\ UNCHANGED <<visible, decls, tuImported, log>>

\* The translation unit imports a header by itself.
TUImport(h) ==
    /\ h \notin tuImported
    /\ Cardinality(tuImported) < MaxTUImports
    /\ tuImported' = tuImported \cup {h}
    /\ IF h \in Range(visible)
       THEN UNCHANGED <<visible, decls>>
       ELSE /\ visible' = Append(visible, h)
            /\ decls' = decls \cup {[name |-> h, origin |-> h]}
    /\ UNCHANGED <<defined, log>>

\* The translation unit declares something of its own.
TUDeclare(d) ==
    /\ d \notin Names(decls)
    /\ decls' = decls \cup {[name |-> d, origin |-> "tu"]}
    /\ UNCHANGED <<defined, visible, tuImported, log>>

Next ==
    \/ \E f \in BridgingFiles : Process(f)
    \/ \E m \in TUMacros : TUDefine(m)
    \/ \E h \in TUHeaders : TUImport(h)
    \/ \E d \in TUDecls : TUDeclare(d)

Spec == Init /\ [][Next]_vars

\* ---------------------------------------------------------------------
\* Helpers for the properties
\* ---------------------------------------------------------------------
Last(s) == s[Len(s)]
Processed(f) == Count(f) >= 1
FirstOf(f) == CHOOSE i \in 1..Len(log) :
                  log[i].file = f /\ \A j \in 1..(i - 1) : log[j].file # f
\* A step that processes bridging header f.
Processes(f) == Len(log') = Len(log) + 1 /\ Last(log').file = f
ExposedByBridging == UNION {Range(log[i].imports) : i \in 1..Len(log)}

\* C1: a bridging header processed while its guard macro is not yet defined
\* issues the imports of the four mpv headers client, render, render_gl and
\* stream_cb, in that order, and leaves all four visible; the mpv headers
\* exposed are the same for the macOS and the tvOS header.
C1_MpvHeadersInOrder ==
    \A i \in 1..Len(log) :
        Guard(log[i].file) \notin log[i].pre =>
            /\ SelectSeq(log[i].imports, IsMpv) = MpvHeaders
            /\ MpvSet \subseteq Range(visible)
            /\ \A j \in 1..Len(log) :
                  Guard(log[j].file) \notin log[j].pre =>
                      Range(log[i].imports) \cap MpvSet
                          = Range(log[j].imports) \cap MpvSet

C1_Witness ==
    \E i, j \in 1..Len(log) :
        /\ log[i].file = MacFile /\ MacGuard \notin log[i].pre
        /\ log[j].file = TVFile /\ TVGuard \notin log[j].pre
        /\ Len(log[i].imports) = 4
        /\ Len(log[j].imports) = 6

\* C2 as stated: after processing the macOS header, and after processing the
\* tvOS header, the mpv headers and Metal and MetalKit are all visible.
C2_BothExposeMpvAndMetal ==
    \A f \in BridgingFiles :
        Processed(f) => (MpvSet \cup MetalSet) \subseteq Range(visible)

\* C2 amended: after the tvOS header the mpv headers and Metal and MetalKit
\* are visible; after the macOS header the mpv headers are visible, and a
\* Metal or MetalKit header is visible only if something other than the
\* macOS header imported it.
C2_TVExposesMetalMacOnlyMpv ==
    /\ Processed(TVFile) => (MpvSet \cup MetalSet) \subseteq Range(visible)
    /\ Processed(MacFile) => MpvSet \subseteq Range(visible)
    /\ ~Processed(TVFile) => (Range(visible) \cap MetalSet) \subseteq tuImported
    /\ \A i \in 1..Len(log) :
          log[i].file = MacFile => Range(log[i].imports) \cap MetalSet = {}

C2_Witness ==
    /\ Len(log) = 2
    /\ log[1].file = MacFile
    /\ log[2].file = TVFile
    /\ tuImported = {}
    /\ visible = MpvHeaders \o MetalHeaders

\* C3: processing a bridging header adds no declaration of its own; the only
\* name it defines is its include guard, every declaration that becomes
\* visible comes from an external header it imports, and everything else in
\* the translation unit's state is left as it was.
C3_OnlyGuardIsDefined ==
    [][\A f \in BridgingFiles :
          Processes(f) =>
              /\ defined \subseteq defined'
              /\ decls \subseteq decls'
              /\ \A m \in defined' \ defined :
                    m = [name |-> Guard(f), origin |-> f]
              /\ \A d \in decls' \ decls :
                    /\ d.origin \in Range(Last(log').imports)
                    /\ d.origin \notin BridgingFiles
              /\ \A d \in decls' : d.origin \notin BridgingFiles
              /\ \A m \in defined' :
                    m.origin \in BridgingFiles => m.name = Guard(m.origin)
              /\ tuImported' = tuImported]_vars

C3_Witness ==
    /\ Processed(MacFile)
    /\ Processed(TVFile)
    /\ [name |-> "DEBUG", origin |-> "tu"] \in defined
    /\ [name |-> MacGuard, origin |-> MacFile] \in defined
    /\ [name |-> TVGuard, origin |-> TVFile] \in defined
    /\ [name |-> "AppDelegate", origin |-> "tu"] \in decls
    /\ [name |-> "MetalKit/MetalKit.h", origin |-> "MetalKit/MetalKit.h"] \in decls

\* C4 as stated: the imports a bridging header issues do not depend on the
\* macros defined when it is processed; every processing of the same header
\* issues the same imports.
C4_ImportsIndependentOfMacros ==
    \A i, j \in 1..Len(log) :
        log[i].file = log[j].file => log[i].imports = log[j].imports

\* C4 amended: the imports a bridging header issues depend on the macros
\* defined when it is processed only through its own guard: for every set of
\* defined macros without the guard it issues the same imports, and with the
\* guard defined it issues none.
C4_ImportsDependOnlyOnGuard ==
    \A i \in 1..Len(log) :
        log[i].imports =
            IF Guard(log[i].file) \in log[i].pre THEN <<>>
            ELSE IF log[i].file = MacFile THEN MpvHeaders
            ELSE MpvHeaders \o MetalHeaders

C4_Witness ==
    \E i, j \in 1..Len(log) :
        /\ i < j
        /\ log[i].file = TVFile
        /\ log[j].file = TVFile
        /\ log[i].pre = {"DEBUG", "TARGET_OS_TV", MacGuard}
        /\ log[i].imports = MpvHeaders \o MetalHeaders
        /\ log[j].imports = <<>>

\* C5: the first processing of a bridging header in a translation unit
\* defines its guard and issues its imports; every later processing of the
\* same header issues no import and leaves the defined macros, the visible
\* headers and the declarations unchanged.
C5_Idempotent ==
    [][\A f \in BridgingFiles :
          Processes(f) =>
              IF ~Processed(f)
              THEN /\ ~IsDefined(Guard(f), defined)
                   /\ IsDefined(Guard(f), defined')
                   /\ Last(log').imports # <<>>
                   /\ Range(Last(log').imports) \subseteq Range(visible')
              ELSE /\ Last(log').imports = <<>>
                   /\ defined' = defined
                   /\ visible' = visible
                   /\ decls' = decls]_vars

C5_Witness ==
    \E f \in BridgingFiles :
        /\ Count(f) >= 3
        /\ \A i \in 1..Len(log) :
              (log[i].file = f /\ i # FirstOf(f)) => log[i].imports = <<>>
        /\ log[FirstOf(f)].imports # <<>>

\* C6: the two headers have distinct guards and neither suppresses the
\* other: once both have been processed, in either order, the body of each
\* was processed, and the visible headers are the four mpv headers plus
\* Metal and MetalKit (besides what the translation unit imported itself).
C6_BothBodiesProcessed ==
    (Processed(MacFile) /\ Processed(TVFile)) =>
        /\ MacGuard # TVGuard
        /\ \A f \in BridgingFiles :
              /\ log[FirstOf(f)].imports # <<>>
              /\ [name |-> Guard(f), origin |-> f] \in defined
        /\ ExposedByBridging = MpvSet \cup MetalSet
        /\ Range(visible) = MpvSet \cup MetalSet \cup tuImported

C6_Witness ==
    /\ Len(log) >= 2
    /\ log[1].file = TVFile
    /\ log[2].file = MacFile
    /\ log[2].imports = MpvHeaders
    /\ Range(visible) = MpvSet \cup MetalSet

====
